---- MODULE Spec2Model ----
(***************************************************************************)
(* Capture-quality pipeline of the identity-document capture assistant.    *)
(*                                                                         *)
(*   useAutoCapture   the debounced auto-capture controller (two files of  *)
(*                    the repository define it: part_017, which keeps its  *)
(*                    options in a ref, and part_016, which closes over    *)
(*                    them and re-arms when `enabled` changes)             *)
(*                                                                         *)
(*   useFrameProcessor, useMLDetection                                      *)
(*                    the frame sampler and the per-frame analysis it      *)
(*                    dispatches, with the analyzer's module state         *)
(*   analyzeFrame     the quality aggregator                               *)
(*                                                                         *)
(* Time is the host clock, in model ticks.  now is the timestamp of the   *)
(* last animation frame; a requestAnimationFrame callback receives the     *)
(* time its frame began, so a performance.now() read between two frames    *)
(* lies at or after now and may lie after the next frame's timestamp.      *)
(***************************************************************************)
EXTENDS Integers, Sequences, FiniteSets, TLC

\* ------------------------------------------------------------------ bounds
MaxTime      == 4   \* the clock runs 0..MaxTime
MaxDelay     == 2   \* delayMs is drawn from 1..MaxDelay
MaxMinStable == 2   \* minStableFrames is drawn from 1..MaxMinStable
MaxGrace     == 2   \* gracePeriodFrames is drawn from 1..MaxGrace
MaxCount     == 3   \* cap of the frame counters (stableFrameCountRef++ etc.)
MaxLoops     == 2   \* cap of live processLoop closures and of retry timers
FrameInterval == 2  \* 1000 / targetFps, in clock ticks
MaxFrameTime == 6   \* the sampler's animation frames run up to this time
MaxSessions  == 2   \* IDV.start calls that open a modal
MaxTimers    == 2   \* animateOut timeouts pending at once
MaxNonce     == 2   \* distinct nonces of the messages posted to the SDK
MaxFaces     == 2   \* predictions the face model returns for a frame
MaxSkew      == 2   \* a performance.now() read is at the timestamp of the
                    \* last animation frame or this far ahead of it

Null == -1          \* a ref holding null (countdownStartRef, rafIdRef)

Min(a, b) == IF a < b THEN a ELSE b
Max(a, b) == IF a > b THEN a ELSE b

VARIABLES
  hookFile,   \* which definition of useAutoCapture is mounted
  opts,       \* the options of the current render: delayMs, enabled, ...
  mounted,    \* the component using the hook is mounted
  now,        \* the host clock
  ac,         \* useAutoCapture: the refs, the published state, the host's
              \* queue of animate callbacks
  onCaptureCalls,   \* observer: onCapture invocations since the last reset()
  enabledTurnedOn,  \* observer: since the last reset(), `enabled` went from
                    \* false to true after an onCapture call
  readyRun,         \* observer: length of the run of ready results that ends
                    \* the results delivered so far (capped at MaxCount);
                    \* Null where the specification does not observe it
  notReadyRun,      \* observer: consecutive not-ready results among those
                    \* delivered while enabled
  readySinceCancel, \* observer: ready results delivered (while enabled)
                    \* since the last cancel() that interrupted a countdown,
                    \* Null when there was none
  lastCall,         \* observer: the operation the last step performed
  isInitialized,    \* frame-analyzer.ts: the module's isInitialized
  faceLoad,         \* the background load of TensorFlow and the face model:
                    \* "idle", "loading", "ready" or "failed"
  videoReady,       \* the video element has readyState >= 2
  fp,               \* useFrameProcessor: refs, state, live processLoop closures
  ml,               \* useMLDetection: published result, pending start timers
  inFlight,         \* frames whose analyzeFrame promise is pending
  nextFrame,        \* number the next extracted frame gets (sampling order)
  stopped,          \* observer: stopDetection() returned, no start since
  delivered,        \* observer: tick times of the last two onFrame calls
  tickLog,          \* observer: what the last animation frame met, and
                    \* whether the one before it was a bad tick
  cfg,              \* analyzeFrame: the merged DetectionConfig
  stages,           \* analyzeFrame: what the detection stages return for
                    \* the frame under analysis
  analysis,         \* analyzeFrame: the DetectionResults returned, oldest first
  faceInvoked,      \* observer: for each result of analysis, whether
                    \* analyzeFrame called detectFace
  quality,          \* calculateOverallQuality: the DetectionResult graded
                    \* and the grades returned for it, oldest first
  frame,            \* analyzeFrame: the ImageData under analysis, where the
                    \* stage results are computed from its pixels
  wire,             \* one MessageBus and the messages it has received:
                    \* the bus, the number of nonces generated, the nonces
                    \* dispatched to the callbacks, and whether a nonce was
                    \* dispatched a second time
  doc,              \* document detector: a candidate rectangle, what
                    \* isAspectRatioValid returned for it and what
                    \* detectDocumentFast reported for it
  face,             \* detectFace: the predictions the model returned for the
                    \* frame and the FaceDetectionResults returned for them
  sdk               \* the embedding SDK: the IDVCore singleton, the
                    \* ModalManager and MessageBus objects it created, the
                    \* host's timer queue, and observers of the callbacks

acVars  == <<hookFile, opts, mounted, ac, onCaptureCalls, enabledTurnedOn,
             notReadyRun, readyRun, readySinceCancel>>
detVars == <<isInitialized, faceLoad, videoReady, fp, ml, inFlight, nextFrame, tickLog,
             delivered>>
anVars  == <<cfg, stages, analysis, faceInvoked, quality, frame>>
extVars == <<sdk, face, doc, wire>>
vars    == <<acVars, detVars, anVars, extVars, now, lastCall, stopped>>

\* ------------------------------------------------- useAutoCapture: state
\* AutoCaptureState published by a stopped controller.
IdleState(o) ==
  [isCountingDown |-> FALSE, countdownProgress |-> <<0, o.delayMs>>,
   remainingMs |-> o.delayMs, shouldCapture |-> FALSE]

\* The refs and state of a freshly mounted hook.
InitialAC(o) ==
  [countdownStartRef |-> Null, rafIdRef |-> Null, animScheduled |-> FALSE,
   stableFrameCountRef |-> 0, unstableFrameCountRef |-> 0,
   hasCapturedRef |-> FALSE, state |-> IdleState(o), fired |-> FALSE]

\* cancelAnimationFrame(rafIdRef.current) when the ref is set.
CancelRaf(c) ==
  IF c.rafIdRef # Null
    THEN [c EXCEPT !.animScheduled = FALSE, !.rafIdRef = Null]
    ELSE c

\* Variant of stopCountdown() that leaves the frame counters as they are.
StopCountdownKeepCounters(c, o) ==
  [CancelRaf(c) EXCEPT !.countdownStartRef = Null, !.state = IdleState(o)]

\* stopCountdown()
StopCountdown(c, o) ==
  [CancelRaf(c) EXCEPT !.countdownStartRef = Null,
                       !.stableFrameCountRef = 0, !.unstableFrameCountRef = 0,
                       !.state = IdleState(o)]

\* startCountdown() called at host time t
StartCountdown(c, o, t) ==
  IF ~o.enabled \/ c.countdownStartRef # Null
    THEN c
    ELSE [c EXCEPT !.countdownStartRef = t, !.hasCapturedRef = FALSE,
                   !.unstableFrameCountRef = 0,
                   !.rafIdRef = 1, !.animScheduled = TRUE]

\* Variant of the not-ready branch that stops on the first not-ready result.
NotReadyFrameNoGrace(c, o) ==
  LET c1 == [c EXCEPT !.unstableFrameCountRef = @ + 1,
                      !.stableFrameCountRef = 0]
  IN IF c1.countdownStartRef # Null THEN StopCountdown(c1, o) ELSE c1

\* Variant of the not-ready branch that stops only after more than
\* gracePeriodFrames not-ready results.
NotReadyFrameLate(c, o) ==
  LET c1 == [c EXCEPT !.unstableFrameCountRef = @ + 1] IN
  IF c1.unstableFrameCountRef > o.gracePeriodFrames
    THEN LET c2 == [c1 EXCEPT !.stableFrameCountRef = 0] IN
         IF c2.countdownStartRef # Null THEN StopCountdown(c2, o) ELSE c2
    ELSE c1

\* The not-ready branch of updateDetectionResult.
NotReadyFrame(c, o) ==
  LET c1 == [c EXCEPT !.unstableFrameCountRef = @ + 1] IN
  IF c1.unstableFrameCountRef >= o.gracePeriodFrames
    THEN LET c2 == [c1 EXCEPT !.stableFrameCountRef = 0] IN
         IF c2.countdownStartRef # Null THEN StopCountdown(c2, o) ELSE c2
    ELSE c1

\* The ready branch of updateDetectionResult.
ReadyFrame(c, o, t) ==
  LET c1 == [c EXCEPT !.unstableFrameCountRef = 0,
                      !.stableFrameCountRef = @ + 1]
  IN IF c1.stableFrameCountRef >= o.minStableFrames /\ c1.countdownStartRef = Null
       THEN StartCountdown(c1, o, t)
       ELSE c1

\* Variant of updateDetectionResult without the hasCapturedRef guard.
UpdateNoGuard(c, o, ready, t) ==
  IF ~o.enabled THEN c
  ELSE IF ready THEN ReadyFrame(c, o, t) ELSE NotReadyFrame(c, o)

\* updateDetectionResult(result) at host time t; ready = result.readyForCapture
UpdateDetectionResultFn(c, o, ready, t) ==
  IF ~o.enabled \/ c.hasCapturedRef THEN c
  ELSE IF ready THEN ReadyFrame(c, o, t) ELSE NotReadyFrame(c, o)

\* Variant of animate that invokes onCapture on every expired tick and keeps
\* the countdown scheduled.
AnimateNoGuard(c, o, currentTime) ==
  LET c0 == [c EXCEPT !.animScheduled = FALSE, !.fired = FALSE]
      elapsed == currentTime - c.countdownStartRef
  IN IF c.countdownStartRef = Null THEN c0
     ELSE IF elapsed >= o.delayMs
       THEN [c0 EXCEPT !.state = [isCountingDown |-> TRUE,
                                   countdownProgress |-> <<o.delayMs, o.delayMs>>,
                                   remainingMs |-> 0, shouldCapture |-> TRUE],
                       !.fired = TRUE, !.hasCapturedRef = TRUE,
                       !.rafIdRef = 1, !.animScheduled = TRUE]
       ELSE [c0 EXCEPT !.state = [isCountingDown |-> TRUE,
                                   countdownProgress |-> <<Min(elapsed, o.delayMs), o.delayMs>>,
                                   remainingMs |-> Max(0, o.delayMs - elapsed),
                                   shouldCapture |-> FALSE],
                       !.rafIdRef = 1, !.animScheduled = TRUE]

\* Variant of animate that counts one tick more than the elapsed time.
AnimateTickCount(c, o, currentTime) ==
  LET c0 == [c EXCEPT !.animScheduled = FALSE, !.fired = FALSE]
      elapsed == (currentTime - c.countdownStartRef) + 1
  IN IF c.countdownStartRef = Null THEN c0
     ELSE IF elapsed >= o.delayMs
       THEN [c0 EXCEPT !.state = [isCountingDown |-> TRUE,
                                   countdownProgress |-> <<o.delayMs, o.delayMs>>,
                                   remainingMs |-> 0, shouldCapture |-> TRUE],
                       !.fired = ~c.hasCapturedRef, !.hasCapturedRef = TRUE,
                       !.countdownStartRef = Null, !.rafIdRef = Null]
       ELSE [c0 EXCEPT !.state = [isCountingDown |-> TRUE,
                                   countdownProgress |-> <<Min(elapsed, o.delayMs), o.delayMs>>,
                                   remainingMs |-> Max(0, o.delayMs - elapsed),
                                   shouldCapture |-> FALSE],
                       !.rafIdRef = 1, !.animScheduled = TRUE]

\* animate(currentTime): one run of the queued animation callback.  The two
\* setState calls of the expiry branch are batched: the state published is
\* the second one applied to the first.  `fired` records whether this run
\* invoked onCapture.
Animate(c, o, currentTime) ==
  LET c0 == [c EXCEPT !.animScheduled = FALSE, !.fired = FALSE]
      elapsed == currentTime - c.countdownStartRef
  IN IF c.countdownStartRef = Null THEN c0
     ELSE IF elapsed >= o.delayMs
       THEN [c0 EXCEPT !.state = [isCountingDown |-> TRUE,
                                   countdownProgress |-> <<o.delayMs, o.delayMs>>,
                                   remainingMs |-> 0, shouldCapture |-> TRUE],
                       !.fired = ~c.hasCapturedRef, !.hasCapturedRef = TRUE,
                       !.countdownStartRef = Null, !.rafIdRef = Null]
       ELSE [c0 EXCEPT !.state = [isCountingDown |-> TRUE,
                                   countdownProgress |-> <<Min(elapsed, o.delayMs), o.delayMs>>,
                                   remainingMs |-> Max(0, o.delayMs - elapsed),
                                   shouldCapture |-> FALSE],
                       !.rafIdRef = 1, !.animScheduled = TRUE]

\* reset()
ResetFn(c, o) == [StopCountdown(c, o) EXCEPT !.hasCapturedRef = FALSE]

\* Variant of cancel() that also clears the already-captured guard.
CancelRearms(c, o) == [StopCountdown(c, o) EXCEPT !.hasCapturedRef = FALSE]

\* cancel()
CancelFn(c, o) == StopCountdown(c, o)

\* part_016 only: the effect on [enabled], run when `enabled` changes.
EnabledEffect(c, file, enabledNow) ==
  IF file = "part_016" /\ enabledNow
    THEN [c EXCEPT !.hasCapturedRef = FALSE]
    ELSE c

\* The unmount cleanup: part_016 cancels the queued callback, part_017 has none.
UnmountCleanup(c, file) ==
  IF file = "part_016" /\ c.rafIdRef # Null
    THEN [c EXCEPT !.animScheduled = FALSE]
    ELSE c

\* --------------------------------------- useFrameProcessor / useMLDetection
\* The sampler and detection state as one value, for the functions below.
Pipeline ==
  [fp |-> fp, ml |-> ml, inFlight |-> inFlight, nextFrame |-> nextFrame,
   delivered |-> delivered]

SetPipeline(p) ==
  /\ fp' = p.fp
  /\ ml' = p.ml
  /\ inFlight' = p.inFlight
  /\ nextFrame' = p.nextFrame
  /\ delivered' = p.delivered

InitialFP ==
  [rafIdRef |-> Null, liveLoops |-> 0, lastFrameTimeRef |-> 0,
   isProcessing |-> FALSE]

InitialML == [result |-> Null, startTimers |-> 0, videoRef |-> Null]

\* processDetection(frame) for the frame numbered p.nextFrame: dropped when
\* the analyzer is not ready; otherwise analyzeFrame runs.  Without the face
\* stage its awaits resolve in the microtasks of the same callback and the
\* result is published at once; with the face stage (faceStage) the promise
\* stays pending across animation frames.
ProcessDetection(p, analyzerReady, faceStage) ==
  IF ~analyzerReady THEN p
  ELSE IF faceStage THEN [p EXCEPT !.inFlight = @ \cup {p.nextFrame}]
  ELSE [p EXCEPT !.ml.result = p.nextFrame]

\* onFrame(frame) at tick time t, after processFrame extracted the frame;
\* throws: the callback throws before it does anything (processLoop catches).
OnFrame(p, t, analyzerReady, faceStage, throws) ==
  [(IF throws THEN p ELSE ProcessDetection(p, analyzerReady, faceStage))
     EXCEPT !.nextFrame = @ + 1, !.delivered = <<p.delivered[2], t>>]

\* Variant of processLoop that does not re-request a frame after a tick on
\* which the extraction failed or the callback threw.
ProcessLoopDies(p, t, ready, extractOk, analyzerReady, faceStage, throws) ==
  IF ~ready THEN [p EXCEPT !.fp.rafIdRef = 1]
  ELSE IF t - p.fp.lastFrameTimeRef >= FrameInterval
    THEN IF extractOk /\ ~throws
           THEN [OnFrame(p, t, analyzerReady, faceStage, throws)
                   EXCEPT !.fp.lastFrameTimeRef = t, !.fp.rafIdRef = 1]
           ELSE [p EXCEPT !.fp.liveLoops = @ - 1, !.fp.rafIdRef = Null]
    ELSE [p EXCEPT !.fp.rafIdRef = 1]

\* Variant of processLoop without the frameInterval test.
ProcessLoopNoThrottle(p, t, ready, extractOk, analyzerReady, faceStage, throws) ==
  IF ~ready THEN [p EXCEPT !.fp.rafIdRef = 1]
  ELSE LET p1 == IF extractOk THEN OnFrame(p, t, analyzerReady, faceStage, throws) ELSE p
       IN [p1 EXCEPT !.fp.lastFrameTimeRef = t, !.fp.rafIdRef = 1]

\* processLoop(currentTime): one run of one live loop closure.
ProcessLoop(p, t, ready, extractOk, analyzerReady, faceStage, throws) ==
  IF ~ready THEN [p EXCEPT !.fp.rafIdRef = 1]
  ELSE IF t - p.fp.lastFrameTimeRef >= FrameInterval
    THEN LET p1 == IF extractOk THEN OnFrame(p, t, analyzerReady, faceStage, throws) ELSE p
         IN [p1 EXCEPT !.fp.lastFrameTimeRef = t, !.fp.rafIdRef = 1]
    ELSE [p EXCEPT !.fp.rafIdRef = 1]

\* One animation frame: the host runs the k queued processLoop callbacks one
\* after the other, all with the frame's timestamp t.
RECURSIVE RunLoops(_, _, _, _, _, _, _, _)
RunLoops(p, k, t, ready, extractOk, analyzerReady, faceStage, throws) ==
  IF k = 0 THEN p
  ELSE RunLoops(ProcessLoop(p, t, ready, extractOk, analyzerReady, faceStage, throws),
                k - 1, t, ready, extractOk, analyzerReady, faceStage, throws)

\* startProcessing(video, onFrame); useMLDetection passes its own `enabled`,
\* which the model keeps true.
StartProcessing(p) ==
  [p EXCEPT !.fp.isProcessing = TRUE, !.fp.rafIdRef = 1,
            !.fp.liveLoops = @ + 1]

\* stopProcessing(): cancels the one callback rafIdRef names.
StopProcessing(p) ==
  IF p.fp.rafIdRef # Null
    THEN [p EXCEPT !.fp.liveLoops = Max(0, @ - 1), !.fp.rafIdRef = Null,
                   !.fp.isProcessing = FALSE]
    ELSE [p EXCEPT !.fp.isProcessing = FALSE]

\* startWhenReady(), from startDetection or from its own retry timer.
StartWhenReady(p, analyzerReady) ==
  IF analyzerReady THEN StartProcessing(p)
  ELSE [p EXCEPT !.ml.startTimers = @ + 1]

\* startDetection(video)
StartDetectionFn(p, analyzerReady) ==
  StartWhenReady([p EXCEPT !.ml.videoRef = 1], analyzerReady)

\* stopDetection()
StopDetectionFn(p) ==
  [StopProcessing(p) EXCEPT !.ml.videoRef = Null, !.ml.result = Null]

\* ------------------------------------------------------------ analyzeFrame
\* Scores and confidences are in hundredths.
DEFAULT_DETECTION_CONFIG ==
  [minDocumentConfidence |-> 50, enableFaceDetection |-> TRUE,
   enableBlurDetection |-> TRUE, enableGlareDetection |-> TRUE,
   enableDocumentDetection |-> TRUE]

\* createEmptyResult() of a stage, and the stand-ins of disabled stages.
EmptyDocument == [detected |-> FALSE, confidence |-> 0]
DisabledDocument == [detected |-> TRUE, confidence |-> 100]
DisabledBlur == [isBlurry |-> FALSE, score |-> 100]
DisabledGlare == [hasGlare |-> FALSE, score |-> 0]
EmptyFace == [detected |-> FALSE, confidence |-> 0]

\* isDocumentMoving(bounds): motion detection is disabled.
IsDocumentMoving == FALSE

\* Variant of isReadyForCapture without the glare test.
IsReadyIgnoringGlare(r, c) ==
  IF ~r.documentDetected \/ r.documentConfidence < c.minDocumentConfidence THEN FALSE
  ELSE IF r.isMoving THEN FALSE
  ELSE IF c.enableBlurDetection /\ r.isBlurry THEN FALSE
  ELSE TRUE

\* Variant of isReadyForCapture that also asks for a face when face detection
\* is enabled.
IsReadyNeedsFace(r, c) ==
  IF ~r.documentDetected \/ r.documentConfidence < c.minDocumentConfidence THEN FALSE
  ELSE IF r.isMoving THEN FALSE
  ELSE IF c.enableBlurDetection /\ r.isBlurry THEN FALSE
  ELSE IF c.enableGlareDetection /\ r.hasGlare THEN FALSE
  ELSE IF c.enableFaceDetection /\ ~r.faceDetected THEN FALSE
  ELSE TRUE

\* isReadyForCapture(result, config)
IsReadyForCapture(r, c) ==
  IF ~r.documentDetected \/ r.documentConfidence < c.minDocumentConfidence THEN FALSE
  ELSE IF r.isMoving THEN FALSE
  ELSE IF c.enableBlurDetection /\ r.isBlurry THEN FALSE
  ELSE IF c.enableGlareDetection /\ r.hasGlare THEN FALSE
  ELSE TRUE

\* Variant of the score whose glare term grows with glareScore.
QualityScoreGlareInverted(r, c) ==
  (IF r.documentDetected THEN Min(r.documentConfidence * 3, 300) ELSE 0)
  + (IF c.enableBlurDetection /\ ~r.isBlurry THEN r.blurScore * 2 ELSE 0)
  + (IF c.enableGlareDetection /\ ~r.hasGlare THEN r.glareScore * 2 ELSE 0)
  + (IF c.enableFaceDetection /\ r.faceDetected THEN r.faceConfidence ELSE 0)

\* calculateOverallQuality(result, config): score and maxScore in hundredths
\* of a weight unit, the thresholds compared without dividing.
QualityScore(r, c) ==
  (IF r.documentDetected THEN Min(r.documentConfidence * 3, 300) ELSE 0)
  + (IF c.enableBlurDetection /\ ~r.isBlurry THEN r.blurScore * 2 ELSE 0)
  + (IF c.enableGlareDetection /\ ~r.hasGlare THEN (100 - r.glareScore) * 2 ELSE 0)
  + (IF c.enableFaceDetection /\ r.faceDetected THEN r.faceConfidence ELSE 0)

\* Variant of maxScore that leaves out the weight of the document stage.
QualityMaxScoreNoDocument(c) ==
  (IF c.enableBlurDetection THEN 200 ELSE 0)
  + (IF c.enableGlareDetection THEN 200 ELSE 0)
  + (IF c.enableFaceDetection THEN 100 ELSE 0)

\* maxScore of calculateOverallQuality.
QualityMaxScore(c) ==
  300 + (IF c.enableBlurDetection THEN 200 ELSE 0)
      + (IF c.enableGlareDetection THEN 200 ELSE 0)
      + (IF c.enableFaceDetection THEN 100 ELSE 0)

CalculateOverallQuality(r, c) ==
  LET score == QualityScore(r, c)
      maxScore == QualityMaxScore(c)
  IN IF score * 100 >= 85 * maxScore THEN "excellent"
     ELSE IF score * 100 >= 65 * maxScore THEN "good"
     ELSE IF score * 100 >= 40 * maxScore THEN "fair"
     ELSE "poor"

\* The result analyzeFrame starts from and returns when a stage rejects.
DefaultResult ==
  [documentDetected |-> FALSE, documentConfidence |-> 0,
   isBlurry |-> FALSE, blurScore |-> 100, hasGlare |-> FALSE, glareScore |-> 0,
   faceDetected |-> FALSE, faceConfidence |-> 0, isMoving |-> TRUE,
   readyForCapture |-> FALSE, overallQuality |-> "poor"]

\* Variant of the face-stage test that does not ask whether the model is
\* loaded.
FaceStageRunsUnloaded(c, documentResult, faceReady) ==
  c.enableFaceDetection /\ documentResult.detected

\* Variant of the face-stage test that does not ask for a document.
FaceStageRunsNoDocument(c, documentResult, faceReady) ==
  c.enableFaceDetection /\ faceReady

\* The test analyzeFrame makes before it awaits detectFace; faceReady is
\* isTensorFlowReady() && isFaceDetectorReady().
FaceStageRuns(c, documentResult, faceReady) ==
  c.enableFaceDetection /\ documentResult.detected /\ faceReady

\* Whether analyzeFrame(c, st) calls detectFace: the three fast stages have
\* resolved and the test above passes.
DetectFaceCalled(c, st, faceReady) ==
  /\ ~st.stageThrows
  /\ FaceStageRuns(c, IF c.enableDocumentDetection THEN st.document ELSE DisabledDocument,
                   faceReady)

\* Variant of analyzeFrame in which a rejecting detectFace reaches the outer
\* catch.
AnalyzeFrameFaceEscapes(c, st, faceReady) ==
  IF st.stageThrows \/ (DetectFaceCalled(c, st, faceReady) /\ st.faceThrows)
    THEN DefaultResult
  ELSE
    LET documentResult == IF c.enableDocumentDetection THEN st.document ELSE DisabledDocument
        blurResult == IF c.enableBlurDetection THEN st.blur ELSE DisabledBlur
        glareResult == IF c.enableGlareDetection THEN st.glare ELSE DisabledGlare
        faceResult == IF FaceStageRuns(c, documentResult, faceReady) /\ ~st.faceThrows
                        THEN st.face ELSE EmptyFace
        r0 == [documentDetected |-> documentResult.detected,
               documentConfidence |-> documentResult.confidence,
               isBlurry |-> blurResult.isBlurry, blurScore |-> blurResult.score,
               hasGlare |-> glareResult.hasGlare, glareScore |-> glareResult.score,
               faceDetected |-> faceResult.detected,
               faceConfidence |-> faceResult.confidence,
               isMoving |-> IsDocumentMoving,
               readyForCapture |-> FALSE, overallQuality |-> "poor"]
        r1 == [r0 EXCEPT !.readyForCapture = IsReadyForCapture(r0, c)]
    IN [r1 EXCEPT !.overallQuality = CalculateOverallQuality(r1, c)]

\* analyzeFrame(imageData, config): st holds what each stage returns for the
\* frame and whether a stage of the Promise.all rejects (stageThrows) or
\* detectFace rejects (faceThrows); faceReady is
\* isTensorFlowReady() && isFaceDetectorReady().
AnalyzeFrameFn(c, st, faceReady) ==
  IF st.stageThrows THEN DefaultResult
  ELSE
    LET documentResult == IF c.enableDocumentDetection THEN st.document ELSE DisabledDocument
        blurResult == IF c.enableBlurDetection THEN st.blur ELSE DisabledBlur
        glareResult == IF c.enableGlareDetection THEN st.glare ELSE DisabledGlare
        faceResult == IF FaceStageRuns(c, documentResult, faceReady) /\ ~st.faceThrows
                        THEN st.face ELSE EmptyFace
        r0 == [documentDetected |-> documentResult.detected,
               documentConfidence |-> documentResult.confidence,
               isBlurry |-> blurResult.isBlurry, blurScore |-> blurResult.score,
               hasGlare |-> glareResult.hasGlare, glareScore |-> glareResult.score,
               faceDetected |-> faceResult.detected,
               faceConfidence |-> faceResult.confidence,
               isMoving |-> IsDocumentMoving,
               readyForCapture |-> FALSE, overallQuality |-> "poor"]
        r1 == [r0 EXCEPT !.readyForCapture = IsReadyForCapture(r0, c)]
    IN [r1 EXCEPT !.overallQuality = CalculateOverallQuality(r1, c)]

\* What the stages of the repository return.
DocumentResults ==
  {EmptyDocument, [detected |-> FALSE, confidence |-> 30],
   [detected |-> TRUE, confidence |-> 60], [detected |-> TRUE, confidence |-> 95]}
BlurResults ==
  {[isBlurry |-> TRUE, score |-> 0], [isBlurry |-> TRUE, score |-> 65],
   [isBlurry |-> FALSE, score |-> 100]}
GlareResults ==
  {[hasGlare |-> FALSE, score |-> 0], [hasGlare |-> FALSE, score |-> 5],
   [hasGlare |-> TRUE, score |-> 50]}
FaceResults ==
  {EmptyFace, [detected |-> TRUE, confidence |-> 40],
   [detected |-> TRUE, confidence |-> 90]}

StageSets ==
  [document : DocumentResults, blur : BlurResults, glare : GlareResults,
   face : FaceResults, stageThrows : BOOLEAN, faceThrows : BOOLEAN]

ConfigSets ==
  [minDocumentConfidence : {50, 70}, enableFaceDetection : BOOLEAN,
   enableBlurDetection : BOOLEAN, enableGlareDetection : BOOLEAN,
   enableDocumentDetection : BOOLEAN]

\* ------------------------------------------- the fast stages on a gray field
\* An ImageData whose pixels all have r = g = b = level.
GrayField(w, h, level) == [width |-> w, height |-> h, level |-> level]
NoPixels == GrayField(0, 0, 0)

\* 0.299 * r + 0.587 * g + 0.114 * b of a pixel of the field.
Luminance(px) == (299 * px.level + 587 * px.level + 114 * px.level) \div 1000

\* document-detector.ts
ID_CARD_ASPECT_RATIO == 1586      \* thousandths
ASPECT_RATIO_TOLERANCE == 300     \* thousandths
MIN_COVERAGE == 15                \* hundredths
GridSize == 8

\* blur-detector (part_018)
BLUR_THRESHOLD_LOW == 100
BLUR_THRESHOLD_HIGH == 500
EDGE_THRESHOLD_LOW == 5

\* glare-detector (part_019)
BRIGHTNESS_THRESHOLD == 240
GLARE_AREA_THRESHOLD == 5         \* hundredths

NoBounds == [x |-> 0, y |-> 0, width |-> 0, height |-> 0]

\* The grid of detectDocumentFast on the field: every cell has the same mean
\* brightness, and no sample differs from the sample before it, so edgeCount
\* stays 0 (edge strength in hundredths).
CellBrightness(px) == Luminance(px)
CellEdgeStrength(px) ==
  LET diff == Luminance(px) - Luminance(px)
      edgeCount == IF diff > 30 \/ -diff > 30 THEN 1 ELSE 0
  IN edgeCount * 100

\* Variant of findRectangularRegion that does not ask a cell for edge
\* activity.
FindRectangularRegionNoEdges(b, e, cellWidth, cellHeight) ==
  LET documentCells == IF b > 50 /\ b < 240 THEN GridSize * GridSize ELSE 0
  IN IF documentCells < 4 THEN NoBounds
     ELSE [x |-> 0, y |-> 0,
           width |-> GridSize * cellWidth, height |-> GridSize * cellHeight]

\* findRectangularRegion(brightness, edges, cellWidth, cellHeight) on a grid
\* whose cells all have brightness b and edge strength e: either every cell
\* is a document cell or none is; the bounding rectangle of all cells is the
\* grid.
FindRectangularRegion(b, e, cellWidth, cellHeight) ==
  LET documentCells == IF b > 50 /\ b < 240 /\ e > 1 THEN GridSize * GridSize ELSE 0
  IN IF documentCells < 4 THEN NoBounds
     ELSE [x |-> 0, y |-> 0,
           width |-> GridSize * cellWidth, height |-> GridSize * cellHeight]

\* Variant of isAspectRatioValid that accepts the landscape orientation
\* only.
IsAspectRatioValidLandscape(w, h) ==
  LET minRatio == ID_CARD_ASPECT_RATIO * (1000 - ASPECT_RATIO_TOLERANCE)
      maxRatio == ID_CARD_ASPECT_RATIO * (1000 + ASPECT_RATIO_TOLERANCE)
  IN w * 1000000 >= minRatio * h /\ w * 1000000 <= maxRatio * h

\* isAspectRatioValid(width / height), both orientations, cross-multiplied.
IsAspectRatioValid(w, h) ==
  LET minRatio == ID_CARD_ASPECT_RATIO * (1000 - ASPECT_RATIO_TOLERANCE)
      maxRatio == ID_CARD_ASPECT_RATIO * (1000 + ASPECT_RATIO_TOLERANCE)
  IN \/ w * 1000000 >= minRatio * h /\ w * 1000000 <= maxRatio * h
     \/ w * maxRatio >= h * 1000000 /\ w * minRatio <= h * 1000000

\* detectDocumentFast(imageData) from the bounds on: aspect ratio, coverage
\* (hundredths, exact when compared: see CoverageAtLeast), confidence.
CoverageAtLeast(bounds, width, height, pct) ==
  bounds.width * bounds.height * 100 >= pct * width * height

DocumentOfBounds(bounds, width, height) ==
  LET coverage == (bounds.width * bounds.height * 100) \div (width * height)
      confidence == IF IsAspectRatioValid(bounds.width, bounds.height)
                       /\ CoverageAtLeast(bounds, width, height, MIN_COVERAGE)
                      THEN Min(50 + coverage \div 2, 95) ELSE 30
  IN IF bounds = NoBounds THEN EmptyDocument
     ELSE [detected |-> confidence > 50, confidence |-> confidence]

\* detectDocumentFast(imageData)
DetectDocumentFast(px) ==
  LET cellWidth == px.width \div GridSize
      cellHeight == px.height \div GridSize
      bounds == FindRectangularRegion(CellBrightness(px), CellEdgeStrength(px),
                                      cellWidth, cellHeight)
  IN DocumentOfBounds(bounds, px.width, px.height)

\* normalizeBlurScore(variance), in hundredths.
NormalizeBlurScore(variance) ==
  IF variance <= BLUR_THRESHOLD_LOW THEN (variance * 30) \div BLUR_THRESHOLD_LOW
  ELSE IF variance >= BLUR_THRESHOLD_HIGH THEN 100
  ELSE 30 + ((variance - BLUR_THRESHOLD_LOW) * 70)
              \div (BLUR_THRESHOLD_HIGH - BLUR_THRESHOLD_LOW)

\* detectBlurFast(imageData): every sample has the same gx and gy, so the mean
\* edge response is the response of one sample.
DetectBlurFast(px) ==
  LET gx == Luminance(px) - Luminance(px)
      gy == Luminance(px) - Luminance(px)
      edgeMean == CHOOSE n \in 0..510 :
                    n * n <= gx * gx + gy * gy /\ gx * gx + gy * gy < (n + 1) * (n + 1)
  IN [isBlurry |-> edgeMean < EDGE_THRESHOLD_LOW,
      score |-> NormalizeBlurScore(edgeMean * 100)]

\* A sampled pixel of the field counts as glare: brightness above 250 in a
\* bright pixel of saturation below SATURATION_THRESHOLD (a gray pixel has
\* saturation 0).
IsVeryBright(px) ==
  Luminance(px) > BRIGHTNESS_THRESHOLD /\ Luminance(px) > 250

\* detectGlareFast(imageData): every sampled pixel counts as glare or none
\* does (ratio and scores in hundredths).
DetectGlareFast(px) ==
  LET veryBrightRatio == IF IsVeryBright(px) THEN 100 ELSE 0
      score == veryBrightRatio * 10
  IN [hasGlare |-> score > GLARE_AREA_THRESHOLD \/ veryBrightRatio > 2,
      score |-> Min(score, 100)]

\* Gray levels of the fields analyzed.
GrayLevels == {0, 50, 51, 128, 239, 240, 250, 255}

\* No frame under analysis, the default configuration.
InitAnalysis(c, st) ==
  /\ cfg = c
  /\ stages = st
  /\ frame = NoPixels
  /\ analysis = <<>>
  /\ faceInvoked = <<>>
  /\ quality = [result |-> DefaultResult, grades |-> <<>>]

NoFrame ==
  [document |-> EmptyDocument, blur |-> DisabledBlur, glare |-> DisabledGlare,
   face |-> EmptyFace, stageThrows |-> FALSE, faceThrows |-> FALSE]

\* ------------------------------------------------------------ the SDK (sdk/)
\* CloseReason
CloseReasons == {"user_closed", "completed", "error", "expired"}

\* A MessageBus: listening while its handler is registered on the window,
\* callbacks registered or cleared, processedNonces in insertion order.
NewMessageBus == [listening |-> TRUE, callbacks |-> FALSE, processedNonces |-> <<>>]
NoMessageBus == [listening |-> FALSE, callbacks |-> FALSE, processedNonces |-> <<>>]

\* MessageBus.handleMessage keeps the newest NONCE_KEEP nonces once more than
\* NONCE_LIMIT are held.
NONCE_LIMIT == 100
NONCE_KEEP == 50

SeqRange(q) == {q[i] : i \in 1..Len(q)}

\* A message passes the origin and structure tests of handleMessage.
MessageAccepted(m) == m.origin = "verify" /\ m.idvType

\* processedNonces after a new nonce was added.
RecordNonce(nonces, nonce) ==
  LET added == Append(nonces, nonce)
  IN IF Len(added) > NONCE_LIMIT
       THEN SubSeq(added, Len(added) - NONCE_KEEP + 1, Len(added))
       ELSE added

\* MessageBus.handleMessage(event) up to the dispatch: whether the message
\* reaches the callbacks of its type (nonce 0: the message carries none).
MessageDispatched(b, m) ==
  /\ b.listening
  /\ MessageAccepted(m)
  /\ (m.nonce # 0 => m.nonce \notin SeqRange(b.processedNonces))

\* The bus after handleMessage(event).
HandleMessage(b, m) ==
  IF b.listening /\ MessageAccepted(m) /\ m.nonce # 0
     /\ m.nonce \notin SeqRange(b.processedNonces)
    THEN [b EXCEPT !.processedNonces = RecordNonce(b.processedNonces, m.nonce)]
    ELSE b

\* MessageBus.destroy()
DestroyBus(b) == [listening |-> FALSE, callbacks |-> FALSE, processedNonces |-> <<>>]

\* The messages the window may receive while the SDK listens.
SdkMessages ==
  [origin : {"verify", "other"}, idvType : {TRUE},
   type : {"IDV_READY", "IDV_START", "IDV_STEP", "IDV_COMPLETE"},
   nonce : 0..MaxNonce, recoverable : {FALSE}, reason : {""}]
  \cup [origin : {"verify"}, idvType : {TRUE}, type : {"IDV_ERROR"},
        nonce : 0..MaxNonce, recoverable : BOOLEAN, reason : {""}]
  \cup [origin : {"verify"}, idvType : {TRUE}, type : {"IDV_CLOSE"},
        nonce : 0..MaxNonce, recoverable : {FALSE}, reason : CloseReasons \cup {""}]
  \cup [origin : {"verify"}, idvType : {FALSE}, type : {"OTHER"},
        nonce : 0..MaxNonce, recoverable : {FALSE}, reason : {""}]

\* The IDV singleton before init(): no modal, no bus, no options; no
\* ModalManager has an overlay, no timeout is pending.
InitialSdk ==
  [config |-> FALSE, modalManager |-> 0, messageBus |-> 0, currentOptions |-> 0,
   sessions |-> 0,
   overlay |-> [k \in 1..MaxSessions |-> FALSE],
   bus |-> [k \in 1..MaxSessions |-> NoMessageBus],
   timers |-> <<>>,
   lastClose |-> [modal |-> 0, reason |-> "", called |-> FALSE]]

\* IDVCore.start(options) past its two guards: session k.
StartFn(s, k) ==
  [s EXCEPT !.currentOptions = k, !.messageBus = k, !.modalManager = k,
            !.sessions = k,
            !.bus[k] = [NewMessageBus EXCEPT !.callbacks = TRUE],
            !.overlay[k] = TRUE]

\* ModalManager.close(reason) of modal k: animateOut queues the timeout.
ModalClose(s, k, reason) ==
  IF k = 0 \/ ~s.overlay[k] THEN s
  ELSE [s EXCEPT !.timers = Append(@, [modal |-> k, reason |-> reason])]

\* IDVCore.cleanup()
Cleanup(s) ==
  [s EXCEPT !.bus = [k \in 1..MaxSessions |->
                       IF k = s.messageBus THEN DestroyBus(s.bus[k]) ELSE s.bus[k]],
            !.messageBus = 0, !.modalManager = 0, !.currentOptions = 0]

\* IDVCore.handleClose(reason, reject): onClose of the current options, if
\* any, then cleanup.
HandleClose(s, reason) == Cleanup(s)

\* The options whose onClose handleClose calls (0: none).
OnCloseCalled(s) == s.currentOptions

\* The callback animateOut queued for modal k: ModalManager.cleanup(), then
\* config.onClose(reason), which is handleClose.  lastClose observes a modal
\* that was open being closed and whether the onClose of its own start() call
\* ran.
CloseTimeout(s, k, reason) ==
  LET closed == [s EXCEPT !.overlay[k] = FALSE, !.timers = Tail(@)]
  IN [HandleClose(closed, reason) EXCEPT
        !.lastClose = IF s.overlay[k]
                        THEN [modal |-> k, reason |-> reason,
                              called |-> OnCloseCalled(closed) = k]
                        ELSE s.lastClose]

\* The handlers setupMessageHandlers registers, by message type.
OnMessage(s, m) ==
  CASE m.type = "IDV_COMPLETE" -> Cleanup(ModalClose(s, s.modalManager, "completed"))
    [] m.type = "IDV_ERROR" ->
         IF m.recoverable THEN s
         ELSE Cleanup(ModalClose(s, s.modalManager, "error"))
    [] m.type = "IDV_CLOSE" ->
         ModalClose(s, s.modalManager, IF m.reason = "" THEN "user_closed" ELSE m.reason)
    [] OTHER -> s

\* The window receives m while bus k listens: handleMessage, then the
\* handlers of m.type if the message got through.
ReceiveMessage(s, k, m) ==
  LET handled == [s EXCEPT !.bus[k] = HandleMessage(s.bus[k], m)]
  IN IF MessageDispatched(s.bus[k], m) /\ s.bus[k].callbacks
       THEN OnMessage(handled, m) ELSE handled

\* ------------------------------------------------- MessageBus on the wire
\* The nonces the verification page generates in one session of the bus:
\* enough for processedNonces to be cut and to fill up again.
MaxWireNonces == NONCE_LIMIT + NONCE_KEEP + 1

\* A verification-page message of a type with a callback, with nonce n.
WireMessage(n) ==
  [origin |-> "verify", idvType |-> TRUE, type |-> "IDV_STEP", nonce |-> n,
   recoverable |-> FALSE, reason |-> ""]

NoWire == [bus |-> NoMessageBus, sent |-> 0, dispatched |-> {}, again |-> FALSE]

\* handleMessage(event) for a message with nonce n, and what it dispatched.
WireReceive(w, n) ==
  LET m == WireMessage(n)
      dispatch == MessageDispatched(w.bus, m) /\ w.bus.callbacks
  IN [bus |-> HandleMessage(w.bus, m),
      sent |-> Max(w.sent, n),
      dispatched |-> IF dispatch THEN w.dispatched \cup {n} ELSE w.dispatched,
      again |-> w.again \/ (dispatch /\ n \in w.dispatched)]

\* ------------------------------------------------- document detector: calls
\* Rectangles findRectangularRegion returns on a 640x480 frame: the bounding
\* rectangle of at least four grid cells.
GridRects ==
  {[x |-> i * 80, y |-> j * 60, width |-> n * 80, height |-> m * 60] :
     <<i, j, n, m>> \in {q \in (0..1) \X (0..1) \X (1..GridSize) \X (1..GridSize) :
                          /\ q[1] + q[3] <= GridSize /\ q[2] + q[4] <= GridSize
                          /\ q[3] * q[4] >= 4}}

\* Rectangles of height 500 with aspect ratios 0.4 to 2, among them 0.630,
\* 1 and 1.586.
AspectRects ==
  {[x |-> 0, y |-> 0, width |-> w, height |-> 500] : w \in 200..1000}

NoDocumentCall == [bounds |-> NoBounds, valid |-> <<>>, result |-> <<>>]

\* --------------------------------------------------------------- detectFace
\* face-detector.ts, in hundredths
MIN_FACE_CONFIDENCE == 50
MIN_FACE_RATIO == 2
MAX_FACE_RATIO == 25

\* createEmptyResult() of the face detector.
EmptyFaceResult ==
  [detected |-> FALSE, confidence |-> 0, bounds |-> NoBounds]

\* Area of a prediction's box, and whether the prediction passes the
\* confidence floor and the face-size band of the loop.
FaceArea(p) == (p.bottomRight[1] - p.topLeft[1]) * (p.bottomRight[2] - p.topLeft[2])
FitsIdCard(p, frameArea) ==
  /\ p.probability >= MIN_FACE_CONFIDENCE
  /\ FaceArea(p) * 100 >= MIN_FACE_RATIO * frameArea
  /\ FaceArea(p) * 100 <= MAX_FACE_RATIO * frameArea

\* The loop over predictions: index of bestFace (0: null) after the first n.
RECURSIVE BestFace(_, _, _)
BestFace(predictions, frameArea, n) ==
  IF n = 0 THEN 0
  ELSE LET best == BestFace(predictions, frameArea, n - 1)
           bestConfidence == IF best = 0 THEN 0 ELSE predictions[best].probability
       IN IF FitsIdCard(predictions[n], frameArea)
             /\ predictions[n].probability > bestConfidence
            THEN n ELSE best

\* predictions.reduce(...): index of the most confident of the first n, the
\* earlier one on ties.
RECURSIVE MostConfident(_, _)
MostConfident(predictions, n) ==
  IF n = 1 THEN 1
  ELSE LET best == MostConfident(predictions, n - 1)
       IN IF predictions[n].probability > predictions[best].probability
            THEN n ELSE best

\* detectFace(imageData) once estimateFaces has returned predictions.
DetectFace(predictions, frameArea) ==
  IF Len(predictions) = 0 THEN EmptyFaceResult
  ELSE LET fit == BestFace(predictions, frameArea, Len(predictions))
           bestFace == IF fit # 0 THEN fit
                       ELSE MostConfident(predictions, Len(predictions))
           p == predictions[bestFace]
       IN [detected |-> TRUE, confidence |-> p.probability,
           bounds |-> [x |-> p.topLeft[1], y |-> p.topLeft[2],
                       width |-> p.bottomRight[1] - p.topLeft[1],
                       height |-> p.bottomRight[2] - p.topLeft[2]]]

\* Predictions of the model on a 640x480 frame: boxes of 1.9%, 2%, 25% and
\* 25.1% of the frame, below, at and above the confidence floor.
Predictions ==
  [probability : {30, 50, 90}, topLeft : {<<0, 0>>},
   bottomRight : {<<60, 96>>, <<64, 96>>, <<320, 240>>, <<321, 240>>}]

RECURSIVE SeqsUpTo(_, _)
SeqsUpTo(S, n) ==
  IF n = 0 THEN {<<>>}
  ELSE LET shorter == SeqsUpTo(S, n - 1)
       IN shorter \cup {Append(q, x) : q \in shorter, x \in S}

NoFaceCall == [predictions |-> <<>>, frameArea |-> 0, result |-> <<>>]

\* State of the SDK and of the face detector where a specification leaves
\* them alone.
InitExt ==
  /\ sdk = InitialSdk
  /\ face = NoFaceCall
  /\ doc = NoDocumentCall
  /\ wire = NoWire

\* ---------------------------------------------------------------------- Init
OptionSets ==
  [delayMs : 1..MaxDelay, enabled : {TRUE},
   minStableFrames : 1..MaxMinStable, gracePeriodFrames : 1..MaxGrace]

\* A freshly mounted controller with options o, nothing delivered yet.
InitController(file, o) ==
  /\ hookFile = file
  /\ opts = o
  /\ mounted = TRUE
  /\ ac = InitialAC(o)
  /\ onCaptureCalls = 0
  /\ enabledTurnedOn = FALSE
  /\ notReadyRun = 0
  /\ readySinceCancel = Null

\* The modules as loaded and the hooks as mounted: analyzer not initialized,
\* no loop, no result.
InitPipeline(ready) ==
  /\ isInitialized = FALSE
  /\ faceLoad = "idle"
  /\ videoReady = ready
  /\ fp = InitialFP
  /\ ml = InitialML
  /\ inFlight = {}
  /\ nextFrame = 1
  /\ stopped = FALSE
  /\ delivered = <<Null, Null>>
  /\ tickLog = [outcome |-> "none", afterBad |-> FALSE]

\* The controller under every file and option of the bounds.
Init ==
  /\ \E file \in {"part_016", "part_017"}, o \in OptionSets : InitController(file, o)
  /\ InitPipeline(TRUE)
  /\ InitAnalysis(DEFAULT_DETECTION_CONFIG, NoFrame)
  /\ now = 0
  /\ readyRun = Null
  /\ lastCall = "mount"
  /\ InitExt

\* The controller with the frame counts of the options down to 0.
OptionSetsFromZero ==
  [delayMs : {MaxDelay}, enabled : {TRUE},
   minStableFrames : 0..MaxMinStable, gracePeriodFrames : 0..MaxGrace]

InitFromZero ==
  /\ \E file \in {"part_016", "part_017"}, o \in OptionSetsFromZero :
       InitController(file, o)
  /\ InitPipeline(TRUE)
  /\ InitAnalysis(DEFAULT_DETECTION_CONFIG, NoFrame)
  /\ now = 0
  /\ readyRun = Null
  /\ lastCall = "mount"
  /\ InitExt

\* The controller again, with the run of ready results observed.
InitRuns ==
  /\ \E file \in {"part_016", "part_017"}, o \in OptionSets : InitController(file, o)
  /\ InitPipeline(TRUE)
  /\ InitAnalysis(DEFAULT_DETECTION_CONFIG, NoFrame)
  /\ now = 0
  /\ readyRun = 0
  /\ lastCall = "mount"
  /\ InitExt

\* The pipeline, with the controller of part_017 left alone.
InitDet ==
  /\ InitController("part_017",
                    [delayMs |-> MaxDelay, enabled |-> TRUE,
                     minStableFrames |-> MaxMinStable,
                     gracePeriodFrames |-> MaxGrace])
  /\ \E ready \in BOOLEAN : InitPipeline(ready)
  /\ InitAnalysis(DEFAULT_DETECTION_CONFIG, NoFrame)
  /\ now = 0
  /\ readyRun = Null
  /\ lastCall = "mount"
  /\ InitExt

\* analyzeFrame on every configuration and stage outcome of the bounds, with
\* the face model loaded or not.
InitAnalyze ==
  /\ InitController("part_017",
                    [delayMs |-> MaxDelay, enabled |-> TRUE,
                     minStableFrames |-> MaxMinStable,
                     gracePeriodFrames |-> MaxGrace])
  /\ InitPipeline(TRUE)
  /\ \E c \in ConfigSets, st \in StageSets : InitAnalysis(c, st)
  /\ now = 0
  /\ readyRun = Null
  /\ lastCall = "mount"
  /\ InitExt

\* analyzeFrame on a 640x480 gray field of every level, under every
\* configuration; the fast stages return what they compute from the pixels
\* and do not reject, the face stage returns or rejects as the model decides.
InitGray ==
  /\ InitController("part_017",
                    [delayMs |-> MaxDelay, enabled |-> TRUE,
                     minStableFrames |-> MaxMinStable,
                     gracePeriodFrames |-> MaxGrace])
  /\ InitPipeline(TRUE)
  /\ \E c \in ConfigSets, level \in GrayLevels, f \in FaceResults, ft \in BOOLEAN :
       LET px == GrayField(640, 480, level)
       IN /\ cfg = c
          /\ frame = px
          /\ stages = [document |-> DetectDocumentFast(px),
                       blur |-> DetectBlurFast(px),
                       glare |-> DetectGlareFast(px),
                       face |-> f, stageThrows |-> FALSE, faceThrows |-> ft]
  /\ analysis = <<>>
  /\ faceInvoked = <<>>
  /\ quality = [result |-> DefaultResult, grades |-> <<>>]
  /\ now = 0
  /\ readyRun = Null
  /\ lastCall = "mount"
  /\ InitExt

\* Scores a DetectionResult may carry, in hundredths.
SubScores == {0, 50, 100}

\* DetectionResults as calculateOverallQuality may be handed them.
ResultSets ==
  [documentDetected : BOOLEAN, documentConfidence : SubScores,
   isBlurry : BOOLEAN, blurScore : SubScores,
   hasGlare : BOOLEAN, glareScore : SubScores,
   faceDetected : BOOLEAN, faceConfidence : SubScores,
   isMoving : {FALSE}, readyForCapture : {FALSE}, overallQuality : {"poor"}]

\* calculateOverallQuality on every result and configuration of the bounds.
InitQuality ==
  /\ InitController("part_017",
                    [delayMs |-> MaxDelay, enabled |-> TRUE,
                     minStableFrames |-> MaxMinStable,
                     gracePeriodFrames |-> MaxGrace])
  /\ InitPipeline(TRUE)
  /\ \E c \in ConfigSets : cfg = c
  /\ stages = NoFrame
  /\ frame = NoPixels
  /\ analysis = <<>>
  /\ faceInvoked = <<>>
  /\ \E r \in ResultSets : quality = [result |-> r, grades |-> <<>>]
  /\ now = 0
  /\ readyRun = Null
  /\ lastCall = "mount"
  /\ InitExt

\* ---------------------------------------------------- useAutoCapture: actions
\* The component delivers one DetectionResult; startCountdown reads
\* performance.now().
UpdateDetectionResult(ready) ==
  /\ mounted
  /\ IF ready THEN ac.stableFrameCountRef < MaxCount
              ELSE ac.unstableFrameCountRef < MaxCount /\ notReadyRun < MaxCount
  /\ \E skew \in {0, MaxSkew} :
       ac' = UpdateDetectionResultFn(ac, opts, ready, now + skew)
  /\ readyRun' = IF readyRun = Null THEN Null
                 ELSE IF ready THEN Min(readyRun + 1, MaxCount) ELSE 0
  /\ notReadyRun' = IF ~opts.enabled THEN notReadyRun
                    ELSE IF ready THEN 0 ELSE notReadyRun + 1
  /\ readySinceCancel' = IF opts.enabled /\ ready /\ readySinceCancel # Null
                           THEN Min(readySinceCancel + 1, MaxCount)
                           ELSE readySinceCancel
  /\ lastCall' = IF ready THEN "ready" ELSE "notReady"
  /\ UNCHANGED <<extVars, anVars, hookFile, opts, mounted, now, onCaptureCalls, enabledTurnedOn, detVars, stopped>>

\* The host runs the queued animate callback of a later animation frame.
AnimateTick ==
  /\ ac.animScheduled
  /\ \E t \in (now + 1)..MaxTime :
       /\ now' = t
       /\ ac' = Animate(ac, opts, t)
       /\ onCaptureCalls' = IF ac'.fired THEN onCaptureCalls + 1 ELSE onCaptureCalls
  /\ lastCall' = "animate"
  /\ UNCHANGED <<extVars, anVars, hookFile, opts, mounted, enabledTurnedOn, notReadyRun, readyRun, readySinceCancel, detVars, stopped>>

Reset ==
  /\ mounted
  /\ ac' = ResetFn(ac, opts)
  /\ onCaptureCalls' = 0
  /\ enabledTurnedOn' = FALSE
  /\ lastCall' = "reset"
  /\ UNCHANGED <<extVars, anVars, hookFile, opts, mounted, now, notReadyRun, readyRun, readySinceCancel, detVars, stopped>>

Cancel ==
  /\ mounted
  /\ ac' = CancelFn(ac, opts)
  /\ readySinceCancel' = IF ac.countdownStartRef # Null THEN 0 ELSE readySinceCancel
  /\ lastCall' = "cancel"
  /\ UNCHANGED <<extVars, anVars, hookFile, opts, mounted, now, onCaptureCalls, enabledTurnedOn, notReadyRun, readyRun, detVars, stopped>>

\* The component re-renders with `enabled` flipped.
SetEnabled ==
  /\ mounted
  /\ opts' = [opts EXCEPT !.enabled = ~opts.enabled]
  /\ ac' = EnabledEffect(ac, hookFile, opts'.enabled)
  /\ enabledTurnedOn' = (enabledTurnedOn \/ (opts'.enabled /\ onCaptureCalls > 0))
  /\ lastCall' = "setEnabled"
  /\ UNCHANGED <<extVars, anVars, hookFile, mounted, now, onCaptureCalls, notReadyRun, readyRun, readySinceCancel, detVars, stopped>>

\* The capture overlay unmounts: the cleanup of its detection effect and the
\* cleanup of useMLDetection both call stopDetection(), then the cleanup of
\* useAutoCapture runs.
Unmount ==
  /\ mounted
  /\ mounted' = FALSE
  /\ SetPipeline(StopDetectionFn(StopDetectionFn(Pipeline)))
  /\ stopped' = TRUE
  /\ ac' = UnmountCleanup(ac, hookFile)
  /\ lastCall' = "unmount"
  /\ UNCHANGED <<extVars, tickLog, anVars, hookFile, opts, now, onCaptureCalls, enabledTurnedOn, notReadyRun, readyRun,
                 readySinceCancel, isInitialized, faceLoad, videoReady>>

\* ------------------------------------------------------- pipeline: actions
\* initializeAnalyzer(): the async body has no await before it sets
\* isInitialized; the TensorFlow / face model load is started in the
\* background and not awaited.
InitializeAnalyzer ==
  /\ ~isInitialized
  /\ isInitialized' = TRUE
  /\ \E isMobile \in BOOLEAN :
       faceLoad' = IF ~isMobile /\ faceLoad = "idle" THEN "loading" ELSE faceLoad
  /\ lastCall' = "initializeAnalyzer"
  /\ UNCHANGED <<extVars, anVars, acVars, videoReady, fp, ml, inFlight, nextFrame, delivered, tickLog, now, stopped>>

\* disposeAnalyzer()
DisposeAnalyzer ==
  /\ isInitialized
  /\ isInitialized' = FALSE
  /\ lastCall' = "disposeAnalyzer"
  /\ UNCHANGED <<extVars, anVars, acVars, faceLoad, videoReady, fp, ml, inFlight, nextFrame, delivered, tickLog, now, stopped>>

\* The background load of TensorFlow and the face model ends.
FaceLoadEnds(ok) ==
  /\ faceLoad = "loading"
  /\ faceLoad' = IF ok THEN "ready" ELSE "failed"
  /\ lastCall' = "faceLoadEnds"
  /\ UNCHANGED <<extVars, anVars, acVars, isInitialized, videoReady, fp, ml, inFlight, nextFrame, delivered, tickLog, now, stopped>>

\* The video element gains or loses decodable data.
VideoReadyChanges ==
  /\ videoReady' = ~videoReady
  /\ lastCall' = "videoReadyChanges"
  /\ UNCHANGED <<extVars, anVars, acVars, isInitialized, faceLoad, fp, ml, inFlight, nextFrame, delivered, tickLog, now, stopped>>

StartDetection ==
  /\ fp.liveLoops < MaxLoops /\ ml.startTimers < MaxLoops
  /\ SetPipeline(StartDetectionFn(Pipeline, isInitialized))
  /\ stopped' = FALSE
  /\ lastCall' = "startDetection"
  /\ UNCHANGED <<extVars, tickLog, anVars, acVars, isInitialized, faceLoad, videoReady, now>>

\* A retry timer of startWhenReady fires.
StartTimerFires ==
  /\ ml.startTimers > 0
  /\ SetPipeline(StartWhenReady([Pipeline EXCEPT !.ml.startTimers = @ - 1],
                                isInitialized))
  /\ lastCall' = "startTimerFires"
  /\ UNCHANGED <<extVars, tickLog, anVars, acVars, isInitialized, faceLoad, videoReady, now, stopped>>

StopDetection ==
  /\ SetPipeline(StopDetectionFn(Pipeline))
  /\ stopped' = TRUE
  /\ lastCall' = "stopDetection"
  /\ UNCHANGED <<extVars, tickLog, anVars, acVars, isInitialized, faceLoad, videoReady, now>>

\* What the first processLoop run of an animation frame at time t meets.
TickOutcome(p, t, ready, extractOk, throws) ==
  IF p.fp.liveLoops = 0 THEN "none"
  ELSE IF ~ready THEN "unreadable"
  ELSE IF t - p.fp.lastFrameTimeRef < FrameInterval THEN "notDue"
  ELSE IF ~extractOk THEN "extractFails"
  ELSE IF throws THEN "callbackThrows"
  ELSE "frame"

BadTicks == {"unreadable", "extractFails", "callbackThrows"}

\* The host runs an animation frame at a later time t: every queued
\* processLoop callback runs.  The face stage can run only when the face
\* model is loaded.
FrameTick ==
  \E t \in (now + 1)..MaxFrameTime, extractOk \in BOOLEAN, faceStage \in BOOLEAN,
     throws \in BOOLEAN :
    /\ faceStage => faceLoad = "ready"
    /\ throws => (extractOk /\ ~faceStage)
    /\ now' = t
    /\ SetPipeline(RunLoops(Pipeline, fp.liveLoops, t, videoReady, extractOk,
                            isInitialized, faceStage, throws))
    /\ tickLog' = [outcome |-> TickOutcome(Pipeline, t, videoReady, extractOk, throws),
                    afterBad |-> tickLog.outcome \in BadTicks]
    /\ lastCall' = "frameTick"
    /\ UNCHANGED <<extVars, anVars, acVars, isInitialized, faceLoad, videoReady, stopped>>

\* A pending analyzeFrame promise resolves: processDetection publishes.
AnalysisCompletes ==
  \E n \in inFlight :
    /\ inFlight' = inFlight \ {n}
    /\ ml' = [ml EXCEPT !.result = n]
    /\ lastCall' = "analysisCompletes"
    /\ UNCHANGED <<extVars, anVars, acVars, isInitialized, faceLoad, videoReady, fp, nextFrame, delivered, tickLog, now, stopped>>

\* The controller and the calls its component makes; the DetectionResults it
\* is fed are arbitrary.
Next ==
  \/ \E ready \in BOOLEAN : UpdateDetectionResult(ready)
  \/ AnimateTick
  \/ Reset
  \/ Cancel
  \/ SetEnabled
  \/ StopDetection
  \/ Unmount

Spec == Init /\ [][Next]_vars

\* The same program with the run of ready results observed.
SpecRuns == InitRuns /\ [][Next]_vars

\* analyzeFrame(imageData, cfg) returns.
AnalyzeFrame ==
  /\ Len(analysis) = 0
  /\ analysis' = <<AnalyzeFrameFn(cfg, stages, faceLoad = "ready")>>
  /\ faceInvoked' = <<DetectFaceCalled(cfg, stages, faceLoad = "ready")>>
  /\ lastCall' = "analyzeFrame"
  /\ UNCHANGED <<extVars, acVars, detVars, cfg, stages, quality, frame, now, stopped>>

\* analyzeFrame on the same pixels again, with another outcome of the face
\* stage, another enableFaceDetection and the face model available or not.
AnalyzeFrameOtherFace ==
  /\ Len(analysis) = 1
  /\ \E e \in BOOLEAN, f \in FaceResults, ft \in BOOLEAN, fr \in BOOLEAN :
       LET c == [cfg EXCEPT !.enableFaceDetection = e]
           st == [stages EXCEPT !.face = f, !.faceThrows = ft]
       IN /\ analysis' = Append(analysis, AnalyzeFrameFn(c, st, fr))
          /\ faceInvoked' = Append(faceInvoked, DetectFaceCalled(c, st, fr))
  /\ lastCall' = "analyzeFrameOtherFace"
  /\ UNCHANGED <<extVars, acVars, detVars, cfg, stages, quality, frame, now, stopped>>

NextAnalyze ==
  \/ InitializeAnalyzer
  \/ \E ok \in BOOLEAN : FaceLoadEnds(ok)
  \/ AnalyzeFrame
  \/ AnalyzeFrameOtherFace

SpecAnalyze == InitAnalyze /\ [][NextAnalyze]_vars

\* analyzeFrame on a gray field.
NextGray ==
  \/ InitializeAnalyzer
  \/ \E ok \in BOOLEAN : FaceLoadEnds(ok)
  \/ AnalyzeFrame

SpecGray == InitGray /\ [][NextGray]_vars

\* calculateOverallQuality(quality.result, cfg) returns.
CalculateQuality ==
  /\ Len(quality.grades) = 0
  /\ quality' = [quality EXCEPT !.grades = <<CalculateOverallQuality(quality.result, cfg)>>]
  /\ lastCall' = "calculateOverallQuality"
  /\ UNCHANGED <<extVars, acVars, detVars, cfg, stages, analysis, faceInvoked, frame, now, stopped>>

\* The result with one of its weighted sub-scores raised (documentConfidence,
\* blurScore, faceConfidence raised, or glareScore lowered) and every other
\* field as it was.
RaisedResults(r) ==
  {[r EXCEPT !.documentConfidence = v] : v \in {x \in SubScores : x > r.documentConfidence}}
  \cup {[r EXCEPT !.blurScore = v] : v \in {x \in SubScores : x > r.blurScore}}
  \cup {[r EXCEPT !.glareScore = v] : v \in {x \in SubScores : x < r.glareScore}}
  \cup {[r EXCEPT !.faceConfidence = v] : v \in {x \in SubScores : x > r.faceConfidence}}

\* calculateOverallQuality on the same result with one sub-score raised.
CalculateQualityRaised ==
  /\ Len(quality.grades) = 1
  /\ \E r \in RaisedResults(quality.result) :
       quality' = [result |-> r,
                   grades |-> Append(quality.grades, CalculateOverallQuality(r, cfg))]
  /\ lastCall' = "calculateOverallQualityRaised"
  /\ UNCHANGED <<extVars, acVars, detVars, cfg, stages, analysis, faceInvoked, frame, now, stopped>>

NextQuality ==
  \/ CalculateQuality
  \/ CalculateQualityRaised

SpecQuality == InitQuality /\ [][NextQuality]_vars

\* --------------------------------------------------------------- detectFace
\* detectFace on every list of predictions of the bounds.
InitFace ==
  /\ InitController("part_017",
                    [delayMs |-> MaxDelay, enabled |-> TRUE,
                     minStableFrames |-> MaxMinStable,
                     gracePeriodFrames |-> MaxGrace])
  /\ InitPipeline(TRUE)
  /\ InitAnalysis(DEFAULT_DETECTION_CONFIG, NoFrame)
  /\ now = 0
  /\ readyRun = Null
  /\ lastCall = "mount"
  /\ sdk = InitialSdk
  /\ doc = NoDocumentCall
  /\ wire = NoWire
  /\ \E q \in SeqsUpTo(Predictions, MaxFaces) :
       face = [predictions |-> q, frameArea |-> 640 * 480, result |-> <<>>]

\* detectFace(imageData) returns.
DetectFaceReturns ==
  /\ Len(face.result) = 0
  /\ face' = [face EXCEPT !.result = <<DetectFace(face.predictions, face.frameArea)>>]
  /\ lastCall' = "detectFace"
  /\ UNCHANGED <<acVars, detVars, anVars, wire, sdk, doc, now, stopped>>

NextFace == DetectFaceReturns

SpecFace == InitFace /\ [][NextFace]_vars

\* ----------------------------------------------------- MessageBus: actions
\* A bus constructed by start(), its handlers registered.
InitWire ==
  /\ InitController("part_017",
                    [delayMs |-> MaxDelay, enabled |-> TRUE,
                     minStableFrames |-> MaxMinStable,
                     gracePeriodFrames |-> MaxGrace])
  /\ InitPipeline(TRUE)
  /\ InitAnalysis(DEFAULT_DETECTION_CONFIG, NoFrame)
  /\ now = 0
  /\ readyRun = Null
  /\ lastCall = "mount"
  /\ sdk = InitialSdk
  /\ face = NoFaceCall
  /\ doc = NoDocumentCall
  /\ wire = [NoWire EXCEPT !.bus = [NewMessageBus EXCEPT !.callbacks = TRUE]]

\* The window receives a message of the verification page: one with a fresh
\* nonce, or again the first or the latest message already sent.
WireMessageArrives ==
  /\ \E n \in {1, wire.sent, wire.sent + 1} :
       /\ n \in 1..MaxWireNonces
       /\ wire' = WireReceive(wire, n)
  /\ lastCall' = "message"
  /\ UNCHANGED <<acVars, detVars, anVars, sdk, face, doc, now, stopped>>

NextWire == WireMessageArrives

SpecWire == InitWire /\ [][NextWire]_vars

\* -------------------------------------------------------- document detector
\* The document detector on every candidate rectangle of the bounds.
InitDoc ==
  /\ InitController("part_017",
                    [delayMs |-> MaxDelay, enabled |-> TRUE,
                     minStableFrames |-> MaxMinStable,
                     gracePeriodFrames |-> MaxGrace])
  /\ InitPipeline(TRUE)
  /\ InitAnalysis(DEFAULT_DETECTION_CONFIG, NoFrame)
  /\ now = 0
  /\ readyRun = Null
  /\ lastCall = "mount"
  /\ sdk = InitialSdk
  /\ face = NoFaceCall
  /\ wire = NoWire
  /\ \E b \in GridRects \cup AspectRects :
       doc = [bounds |-> b, valid |-> <<>>, result |-> <<>>]

\* isAspectRatioValid(bounds.width / bounds.height) returns.
AspectRatioChecked ==
  /\ Len(doc.valid) = 0
  /\ doc' = [doc EXCEPT !.valid = <<IsAspectRatioValid(doc.bounds.width, doc.bounds.height)>>]
  /\ lastCall' = "isAspectRatioValid"
  /\ UNCHANGED <<acVars, detVars, anVars, wire, sdk, face, now, stopped>>

\* detectDocumentFast returns for a 640x480 frame in which
\* findRectangularRegion found doc.bounds.
DocumentDetected ==
  /\ Len(doc.result) = 0
  /\ doc.bounds \in GridRects
  /\ doc' = [doc EXCEPT !.result = <<DocumentOfBounds(doc.bounds, 640, 480)>>]
  /\ lastCall' = "detectDocumentFast"
  /\ UNCHANGED <<acVars, detVars, anVars, wire, sdk, face, now, stopped>>

NextDoc ==
  \/ AspectRatioChecked
  \/ DocumentDetected

SpecDoc == InitDoc /\ [][NextDoc]_vars

\* ------------------------------------------------------------- SDK: actions
\* IDV.init(config)
SdkInit ==
  /\ ~sdk.config
  /\ sdk' = [sdk EXCEPT !.config = TRUE]
  /\ lastCall' = "init"
  /\ UNCHANGED <<acVars, detVars, anVars, wire, face, doc, now, stopped>>

\* IDV.start(options): rejected before init() and while the current
\* ModalManager is open, otherwise a new session.
SdkStart ==
  /\ sdk.sessions < MaxSessions
  /\ sdk' = IF ~sdk.config \/ (sdk.modalManager # 0 /\ sdk.overlay[sdk.modalManager])
              THEN sdk ELSE StartFn(sdk, sdk.sessions + 1)
  /\ lastCall' = "start"
  /\ UNCHANGED <<acVars, detVars, anVars, wire, face, doc, now, stopped>>

\* IDV.close()
SdkClose ==
  /\ Len(sdk.timers) < MaxTimers
  /\ sdk' = ModalClose(sdk, sdk.modalManager, "user_closed")
  /\ lastCall' = "close"
  /\ UNCHANGED <<acVars, detVars, anVars, wire, face, doc, now, stopped>>

\* The close button, the Escape key or an overlay click of modal k.
UserCloses(k) ==
  /\ sdk.overlay[k]
  /\ Len(sdk.timers) < MaxTimers
  /\ sdk' = ModalClose(sdk, k, "user_closed")
  /\ lastCall' = "userCloses"
  /\ UNCHANGED <<acVars, detVars, anVars, wire, face, doc, now, stopped>>

\* A message event on the window.
SdkMessage ==
  /\ Len(sdk.timers) < MaxTimers
  /\ \E k \in 1..MaxSessions, m \in SdkMessages :
       /\ sdk.bus[k].listening
       /\ sdk' = ReceiveMessage(sdk, k, m)
  /\ lastCall' = "message"
  /\ UNCHANGED <<acVars, detVars, anVars, wire, face, doc, now, stopped>>

\* The oldest animateOut timeout fires.
SdkTimeout ==
  /\ Len(sdk.timers) > 0
  /\ sdk' = CloseTimeout(sdk, Head(sdk.timers).modal, Head(sdk.timers).reason)
  /\ lastCall' = "timeout"
  /\ UNCHANGED <<acVars, detVars, anVars, wire, face, doc, now, stopped>>

NextSdk ==
  \/ SdkInit
  \/ SdkStart
  \/ SdkClose
  \/ \E k \in 1..MaxSessions : UserCloses(k)
  \/ SdkMessage
  \/ SdkTimeout

\* The SDK before init(), the verification page's hooks left alone.
InitSdk ==
  /\ InitController("part_017",
                    [delayMs |-> MaxDelay, enabled |-> TRUE,
                     minStableFrames |-> MaxMinStable,
                     gracePeriodFrames |-> MaxGrace])
  /\ InitPipeline(TRUE)
  /\ InitAnalysis(DEFAULT_DETECTION_CONFIG, NoFrame)
  /\ now = 0
  /\ readyRun = Null
  /\ lastCall = "mount"
  /\ InitExt

SpecSdk == InitSdk /\ [][NextSdk]_vars

SpecFromZero == InitFromZero /\ [][Next]_vars

\* The sampler, the analyzer and the detection hook.
NextDet ==
  \/ InitializeAnalyzer
  \/ DisposeAnalyzer
  \/ \E ok \in BOOLEAN : FaceLoadEnds(ok)
  \/ VideoReadyChanges
  \/ StartDetection
  \/ StartTimerFires
  \/ StopDetection
  \/ FrameTick
  \/ AnalysisCompletes

SpecDet == InitDet /\ [][NextDet]_vars

\* A step that delivered a DetectionResult to updateDetectionResult.
FrameStep == lastCall' \in {"ready", "notReady"}

\* ------------------------------------------------------------------ claims

\* C1: one-shot capture.  For any sequence of updateDetectionResult calls and
\* animation ticks, onCapture is invoked at most once between two reset()
\* calls (the options of the hook staying as they are in between).
C1_OneShotCapture == ~enabledTurnedOn => onCaptureCalls <= 1

\* C1 witness: onCapture has fired and a further ready result was delivered.
C1_Witness == onCaptureCalls = 1 /\ ~enabledTurnedOn /\ lastCall = "ready"

C4_CountdownDeterminism ==
  [][(lastCall' = "animate" /\ ac.countdownStartRef # Null) =>
       LET elapsed == now' - ac.countdownStartRef IN
       /\ (ac.state.isCountingDown /\ ~ac.state.shouldCapture) =>
            ac'.state.remainingMs < ac.state.remainingMs
       /\ ac'.state.shouldCapture <=> (elapsed >= opts.delayMs)
       /\ ac'.state.shouldCapture =>
            (/\ ac'.state.remainingMs = 0
             /\ ac'.countdownStartRef = Null /\ ~ac'.animScheduled)
       /\ ~ac'.state.shouldCapture =>
            (/\ ac'.state.remainingMs = opts.delayMs - elapsed
             /\ ac'.state.remainingMs > 0
             /\ ac'.countdownStartRef = ac.countdownStartRef
             /\ ac'.animScheduled)]_vars

\* C4 witness: a countdown of two ticks of delay has expired on a tick.
C4_Witness ==
  /\ lastCall = "animate" /\ ac.state.shouldCapture /\ opts.delayMs = 2
  /\ onCaptureCalls = 1

\* C5: readiness law.  Every DetectionResult analyzeFrame returns has
\* readyForCapture true exactly when documentDetected, documentConfidence >=
\* minDocumentConfidence, not isMoving, blur detection disabled or not
\* isBlurry, and glare detection disabled or not hasGlare.
C5_ReadinessLaw ==
  \A i \in 1..Len(analysis) :
    analysis[i].readyForCapture <=>
      (/\ analysis[i].documentDetected
       /\ analysis[i].documentConfidence >= cfg.minDocumentConfidence
       /\ ~analysis[i].isMoving
       /\ (~cfg.enableBlurDetection \/ ~analysis[i].isBlurry)
       /\ (~cfg.enableGlareDetection \/ ~analysis[i].hasGlare))

\* C5 witness: a ready result with every gate enabled, the document stage
\* having returned a confidence above a raised minimum.
C5_Witness ==
  /\ Len(analysis) = 1 /\ analysis[1].readyForCapture
  /\ cfg.enableDocumentDetection /\ cfg.enableBlurDetection /\ cfg.enableGlareDetection
  /\ cfg.minDocumentConfidence = 70

\* C6: at most one analyzeFrame promise is pending at any time.
C6_OneAnalysisInFlight == Cardinality(inFlight) <= 1

\* C7: after stopDetection() has returned, no frame is extracted or handed to
\* analysis until startDetection() is called again.
C7_NoFrameAfterStop == [][nextFrame' # nextFrame => ~stopped]_vars

\* C8: stopping detection or unmounting the overlay while a countdown is
\* running cancels the countdown timer and clears both counters, and onCapture
\* is not invoked afterwards.
C8_StopClearsController ==
  [][/\ (lastCall' \in {"stopDetection", "unmount"} /\ ac.countdownStartRef # Null) =>
          (/\ ~ac'.animScheduled
           /\ ac'.stableFrameCountRef = 0
           /\ ac'.unstableFrameCountRef = 0)
     /\ (stopped /\ lastCall' = "animate") => onCaptureCalls' = onCaptureCalls]_vars

\* C9: sampler rate bound.  Any two consecutive onFrame calls have tick
\* timestamps at least 1000 / targetFps apart.
C9_SamplerRateBound ==
  delivered[1] # Null => delivered[2] - delivered[1] >= FrameInterval

\* C9 witness: two frames delivered, with a tick in between that delivered
\* none.
C9_Witness ==
  /\ delivered[1] # Null /\ delivered[2] - delivered[1] > FrameInterval
  /\ fp.lastFrameTimeRef = delivered[2]

C11_ResetAndCancel ==
  [][(lastCall' \in {"reset", "cancel"}) =>
       /\ ~ac'.animScheduled /\ ac'.rafIdRef = Null
       /\ ac'.countdownStartRef = Null
       /\ ac'.stableFrameCountRef = 0 /\ ac'.unstableFrameCountRef = 0
       /\ ~ac'.state.isCountingDown /\ ~ac'.state.shouldCapture
       /\ ac'.state.countdownProgress[1] = 0
       /\ ac'.state.remainingMs = opts.delayMs
       /\ (lastCall' = "reset" => ~ac'.hasCapturedRef)
       /\ (lastCall' = "cancel" => ac'.hasCapturedRef = ac.hasCapturedRef)]_vars

\* C11 witness: cancel() called after the capture, the guard still set.
C11_Witness ==
  /\ lastCall = "cancel" /\ ac.hasCapturedRef /\ onCaptureCalls = 1
  /\ ~ac.state.shouldCapture /\ ac.state.remainingMs = opts.delayMs

\* C12: stability precedes auto-capture.  At the moment a countdown starts,
\* the last minStableFrames results delivered to updateDetectionResult were
\* all ready.
C12_StabilityPrecedesCountdown ==
  [][(ac.countdownStartRef = Null /\ ac'.countdownStartRef # Null) =>
       readyRun' >= opts.minStableFrames]_vars

\* C13: face presence never gates readiness.  Two analyses that agree on the
\* document, blur and glare outcomes and on the thresholds, and differ only
\* in the face outcome, enableFaceDetection or the availability of the face
\* model, return the same readyForCapture.
C13_FaceNeverGates ==
  Len(analysis) = 2 => analysis[1].readyForCapture = analysis[2].readyForCapture

\* C13 witness: a ready result with a face and a ready result without one.
C13_Witness ==
  /\ Len(analysis) = 2 /\ analysis[1].readyForCapture /\ analysis[2].readyForCapture
  /\ analysis[1].faceDetected /\ ~analysis[2].faceDetected

\* The document, blur and glare fields of r are what the enabled stages
\* returned for the frame (the stand-ins for the disabled ones).
CarriesFastStages(r) ==
  /\ r.documentDetected =
       (IF cfg.enableDocumentDetection THEN stages.document.detected ELSE TRUE)
  /\ r.documentConfidence =
       (IF cfg.enableDocumentDetection THEN stages.document.confidence ELSE 100)
  /\ r.isBlurry = (cfg.enableBlurDetection /\ stages.blur.isBlurry)
  /\ r.blurScore = (IF cfg.enableBlurDetection THEN stages.blur.score ELSE 100)
  /\ r.hasGlare = (cfg.enableGlareDetection /\ stages.glare.hasGlare)
  /\ r.glareScore = (IF cfg.enableGlareDetection THEN stages.glare.score ELSE 0)

\* C14: a failed or unfinished load of the face model stalls nothing.
\* initializeAnalyzer leaves the analyzer ready whatever the state of the load,
\* and while the load has not succeeded analyzeFrame returns the document, blur
\* and glare results of the frame with faceDetected false and faceConfidence 0.
C14_FaceLoadNeverStalls ==
  [][/\ lastCall' = "initializeAnalyzer" => isInitialized'
     /\ (lastCall' = "analyzeFrame" /\ faceLoad # "ready" /\ ~stages.stageThrows) =>
          /\ Len(analysis') = 1
          /\ CarriesFastStages(analysis'[1])
          /\ ~analysis'[1].faceDetected /\ analysis'[1].faceConfidence = 0]_vars

\* C14 witness: a document found and analysed after the load failed, on a
\* frame whose face the stage would have found.
C14_Witness ==
  /\ lastCall = "analyzeFrame" /\ faceLoad = "failed" /\ isInitialized
  /\ cfg.enableFaceDetection /\ stages.face.detected /\ ~stages.faceThrows
  /\ analysis[1].documentDetected /\ ~analysis[1].faceDetected

\* C15: stage failures never escape the aggregator.  analyzeFrame returns a
\* result whatever the stages do; when one of the document, blur and glare
\* stages rejects, the result carries the neutral values of the stages (no
\* document, confidence 0, not blurry, no glare) and is not ready; when
\* detectFace rejects, the result carries no face, confidence 0, and the
\* document, blur and glare results of the frame.
C15_StageFailuresContained ==
  [][lastCall' = "analyzeFrame" =>
       /\ Len(analysis') = 1
       /\ stages.stageThrows =>
            /\ ~analysis'[1].documentDetected /\ analysis'[1].documentConfidence = 0
            /\ ~analysis'[1].isBlurry /\ analysis'[1].blurScore = 100
            /\ ~analysis'[1].hasGlare /\ analysis'[1].glareScore = 0
            /\ ~analysis'[1].faceDetected /\ analysis'[1].faceConfidence = 0
            /\ ~analysis'[1].readyForCapture
       /\ (~stages.stageThrows /\ stages.faceThrows) =>
            /\ ~analysis'[1].faceDetected /\ analysis'[1].faceConfidence = 0
            /\ CarriesFastStages(analysis'[1])]_vars

\* C15 witness: detectFace was called on a frame with a document and
\* rejected; the result has the document and no face.
C15_Witness ==
  /\ lastCall = "analyzeFrame" /\ stages.faceThrows /\ ~stages.stageThrows
  /\ faceInvoked[1] /\ stages.face.detected
  /\ analysis[1].documentDetected /\ ~analysis[1].faceDetected

\* C17: detectFace is called for a frame only if face detection is enabled
\* and the frame's result has a detected document; a frame for which it was
\* not called has faceDetected false and faceConfidence 0.
C17_FaceStageInvocation ==
  Len(analysis) >= 1 =>
    /\ faceInvoked[1] => (cfg.enableFaceDetection /\ analysis[1].documentDetected)
    /\ ~faceInvoked[1] => (~analysis[1].faceDetected /\ analysis[1].faceConfidence = 0)

\* C17 witness: face detection enabled and the model loaded, but no document
\* on the frame: detectFace was not called although it would have found a
\* face.
C17_Witness ==
  /\ Len(analysis) >= 1 /\ ~faceInvoked[1]
  /\ cfg.enableFaceDetection /\ faceLoad = "ready" /\ lastCall = "analyzeFrame"
  /\ stages.face.detected /\ ~stages.stageThrows /\ ~analysis[1].documentDetected

\* C16: the sampler survives bad ticks.  Every animation frame leaves each
\* live loop with its next tick requested; a tick on which the source is not
\* readable or the extraction fails delivers no frame; and a due tick on
\* which the source is readable and the extraction succeeds delivers one,
\* whatever the ticks before it met.
C16_SamplerSurvivesBadTicks ==
  [][lastCall' = "frameTick" =>
       /\ fp'.liveLoops = fp.liveLoops
       /\ fp.liveLoops > 0 => fp'.rafIdRef # Null
       /\ tickLog'.outcome \in {"unreadable", "extractFails"} =>
            (nextFrame' = nextFrame /\ delivered' = delivered)
       /\ tickLog'.outcome \in {"frame", "callbackThrows"} =>
            (nextFrame' = nextFrame + 1 /\ delivered'[2] = now')]_vars

\* C16 witness: a frame delivered on the tick after a bad one (source not
\* readable, extraction failed or callback threw).
C16_Witness ==
  /\ lastCall = "frameTick" /\ tickLog.outcome = "frame" /\ tickLog.afterBad
  /\ delivered[2] = now /\ delivered[1] # Null /\ fp.lastFrameTimeRef = now

\* Position of a grade in poor < fair < good < excellent.
QualityRank(g) ==
  CASE g = "poor" -> 0 [] g = "fair" -> 1 [] g = "good" -> 2 [] g = "excellent" -> 3

\* C18: overallQuality is monotonic.  Raising one weighted sub-score of a
\* result (documentConfidence, blurScore, 1 - glareScore, faceConfidence), all
\* other fields and the configuration fixed, never lowers the grade.
C18_QualityMonotonic ==
  Len(quality.grades) = 2 =>
    QualityRank(quality.grades[1]) <= QualityRank(quality.grades[2])

\* C18 witness: lowering glareScore took a result from fair to good.
C18_Witness ==
  /\ Len(quality.grades) = 2
  /\ quality.grades[1] = "fair" /\ quality.grades[2] = "good"
  /\ cfg.enableGlareDetection /\ ~quality.result.hasGlare
  /\ quality.result.glareScore = 0 /\ lastCall = "calculateOverallQualityRaised"

\* C19: in every reachable state the published AutoCaptureState is in range:
\* countdownProgress lies in [0, 1] and remainingMs is at least 0, whatever the
\* order of countdown starts, tick timestamps, stops and restarts.
\* (countdownProgress is the fraction <<numerator, denominator>>.)
C19_StateInRange ==
  /\ ac.state.countdownProgress[2] > 0
  /\ 0 <= ac.state.countdownProgress[1]
  /\ ac.state.countdownProgress[1] <= ac.state.countdownProgress[2]
  /\ ac.state.remainingMs >= 0

C21_OnCloseCalled ==
  sdk.lastClose.modal # 0 => sdk.lastClose.called

\* C22: overallQuality is the grade of the weighted normalized score with
\* document weight 3, blur weight 2, glare weight 2 and face weight 1, the
\* face weight being counted (in score and in the normaliser) only if face
\* detection is enabled; score < 0.4 poor, < 0.65 fair, < 0.85 good,
\* >= 0.85 excellent.  (Scores in hundredths; a sub-score earns its weight
\* as in the result: the document's confidence if detected, blurScore if not
\* blurry, 1 - glareScore if no glare, the face's confidence if detected.)
C22_WeightedGrade ==
  Len(quality.grades) >= 1 =>
    LET r == quality.result
        score == (IF r.documentDetected THEN Min(r.documentConfidence * 3, 300) ELSE 0)
                 + (IF ~r.isBlurry THEN r.blurScore * 2 ELSE 0)
                 + (IF ~r.hasGlare THEN (100 - r.glareScore) * 2 ELSE 0)
                 + (IF cfg.enableFaceDetection /\ r.faceDetected THEN r.faceConfidence ELSE 0)
        maxScore == 300 + 200 + 200 + (IF cfg.enableFaceDetection THEN 100 ELSE 0)
        grade == IF score * 100 < 40 * maxScore THEN "poor"
                 ELSE IF score * 100 < 65 * maxScore THEN "fair"
                 ELSE IF score * 100 < 85 * maxScore THEN "good"
                 ELSE "excellent"
    IN quality.grades[Len(quality.grades)] = grade

\* C23: given the candidate list returned by the model, detectFace returns
\* the highest-confidence candidate among those that meet the confidence
\* floor and whose bounding-box area is within 2%-25% of the frame area; if
\* no candidate satisfies both, it falls back to the single
\* highest-confidence candidate of the whole list, flagged as a weaker match
\* (a field of the result beyond detected, confidence and bounds that is
\* set).
C23_FaceSelection ==
  (Len(face.result) = 1 /\ Len(face.predictions) > 0) =>
    LET ps == face.predictions
        r == face.result[1]
        Box(p) == [x |-> p.topLeft[1], y |-> p.topLeft[2],
                   width |-> p.bottomRight[1] - p.topLeft[1],
                   height |-> p.bottomRight[2] - p.topLeft[2]]
        Returned(i) == r.detected /\ r.confidence = ps[i].probability
                       /\ r.bounds = Box(ps[i])
        fitting == {i \in 1..Len(ps) : FitsIdCard(ps[i], face.frameArea)}
        Top(I) == {i \in I : \A j \in I : ps[j].probability <= ps[i].probability}
        flagged == \E f \in DOMAIN r \ {"detected", "confidence", "bounds"} : r[f] = TRUE
    IN IF fitting # {}
         THEN (\E i \in Top(fitting) : Returned(i)) /\ ~flagged
         ELSE (\E i \in Top(1..Len(ps)) : Returned(i)) /\ flagged

\* C24: the document aspect-ratio check accepts ratio 1.586 and its
\* reciprocal 0.630 (both orientations) and rejects ratio 1.0 (square) under
\* the default +/-30% tolerance.
C24_AspectRatioCheck ==
  Len(doc.valid) = 1 =>
    /\ doc.bounds.width * 1000 = 1586 * doc.bounds.height => doc.valid[1]
    /\ doc.bounds.width * 1000 = 630 * doc.bounds.height => doc.valid[1]
    /\ doc.bounds.width = doc.bounds.height => ~doc.valid[1]

\* C24 witness: isAspectRatioValid has accepted a rectangle of ratio 0.630.
C24_Witness ==
  /\ doc.bounds.width = 315 /\ doc.bounds.height = 500
  /\ doc.valid = <<TRUE>>

\* C25: the document detector reports detected = true only for a rectangle
\* whose area is within the coverage band of the frame, at least 15% and at
\* most 90% of the frame area; a rectangle below the band or above it (the
\* whole frame) is not reported as a detected document.
C25_CoverageBand ==
  (Len(doc.result) = 1 /\ doc.result[1].detected) =>
     /\ doc.bounds.width * doc.bounds.height * 100 >= 15 * 640 * 480
     /\ doc.bounds.width * doc.bounds.height * 100 <= 90 * 640 * 480

\* C26: the DetectionResults published by useMLDetection (result state and
\* onDetectionResult) appear in the order in which their frames were sampled:
\* the result of an older frame is never published after the result of a
\* newer frame, even when the analyses take different amounts of time.
C26_PublishedInOrder ==
  [][(ml.result # Null /\ ml'.result # Null) => ml'.result >= ml.result]_vars

\* C27: after stopDetection() has reset result to null, no DetectionResult is
\* published (result stays null) until detection is started again, even if
\* an analyzeFrame call was in flight when stopDetection was called.
C27_NoResultAfterStop == stopped => ml.result = Null

\* C28: in every reachable state, while a countdown is running (the countdown
\* start time is set) the stable-frame counter is at least minStableFrames
\* and the unstable-frame counter is below gracePeriodFrames.
C28_CountdownCounters ==
  ac.countdownStartRef # Null =>
    /\ ac.stableFrameCountRef >= opts.minStableFrames
    /\ ac.unstableFrameCountRef < opts.gracePeriodFrames

\* C28 with gracePeriodFrames of at least 1: while a countdown is running the
\* stable-frame counter is at least minStableFrames and the unstable-frame
\* counter is below gracePeriodFrames.
C28_CountdownCountersGrace ==
  (ac.countdownStartRef # Null /\ opts.gracePeriodFrames >= 1) =>
    /\ ac.stableFrameCountRef >= opts.minStableFrames
    /\ ac.unstableFrameCountRef < opts.gracePeriodFrames

\* C28 witness: a countdown that has survived a not-ready result.
C28_Witness ==
  /\ ac.countdownStartRef # Null /\ lastCall = "notReady"
  /\ ac.unstableFrameCountRef >= 1 /\ opts.minStableFrames >= 1

\* C29: a message carrying a nonce that was already processed is never
\* dispatched to the registered handlers a second time, for any number of
\* intervening messages with other nonces.
C29_NoReplayDispatched == ~wire.again

\* C30: without a detected document the grade is capped: for every
\* DetectionResult with documentDetected = false and every configuration,
\* overallQuality is 'poor' or 'fair', never 'good' or 'excellent'.
C30_NoDocumentCapped ==
  (Len(quality.grades) >= 1 /\ ~quality.result.documentDetected) =>
     quality.grades[Len(quality.grades)] \in {"poor", "fair"}

\* C30 witness: no document, every other stage enabled and at its best, and
\* the grade is 'fair'.
C30_Witness ==
  /\ Len(quality.grades) >= 1 /\ ~quality.result.documentDetected
  /\ cfg.enableBlurDetection /\ cfg.enableGlareDetection /\ cfg.enableFaceDetection
  /\ ~quality.result.isBlurry /\ quality.result.blurScore = 100
  /\ ~quality.result.hasGlare /\ quality.result.glareScore = 0
  /\ quality.result.faceDetected /\ quality.result.faceConfidence = 100
  /\ quality.grades[Len(quality.grades)] = "fair"

=============================================================================
